---- MODULE Spec2Model ----
(***************************************************************************)
(* Phishing threat-intelligence ML service: the model gateway              *)
(* (ml-service/app/model_loader.py), the URL feature extractor             *)
(* (ml-service/app/feature_extractor.py) and the request handlers of the   *)
(* FastAPI application (ml-service/app/main.py).                           *)
(*                                                                         *)
(* Representation.  A Python str is a sequence of one-character strings.   *)
(* Python floats are fixed-point integers: digit_ratio and url_entropy in  *)
(* thousandths, probabilities in millionths, confidence in ten-thousandths *)
(* (the code rounds it to 4 places), risk_score as a fraction <<n, d>>.    *)
(***************************************************************************)
EXTENDS Integers, Sequences, FiniteSets, TLC

\* ------------------------------------------------------------------------
\* str methods used by the code
\* ------------------------------------------------------------------------

Digits == {"0", "1", "2", "3", "4", "5", "6", "7", "8", "9"}

LowerLetters ==
    {"a", "b", "c", "d", "e", "f", "g", "h", "i", "j", "k", "l", "m",
     "n", "o", "p", "q", "r", "s", "t", "u", "v", "w", "x", "y", "z"}

UpperLetters ==
    {"A", "B", "C", "D", "E", "F", "G", "H", "I", "J", "K", "L", "M",
     "N", "O", "P", "Q", "R", "S", "T", "U", "V", "W", "X", "Y", "Z"}

\* urllib.parse.scheme_chars
scheme_chars == LowerLetters \cup UpperLetters \cup Digits \cup {"+", "-", "."}

LowerChar(c) ==
    CASE c = "A" -> "a" [] c = "B" -> "b" [] c = "C" -> "c" [] c = "D" -> "d"
      [] c = "E" -> "e" [] c = "F" -> "f" [] c = "G" -> "g" [] c = "H" -> "h"
      [] c = "I" -> "i" [] c = "J" -> "j" [] c = "K" -> "k" [] c = "L" -> "l"
      [] c = "M" -> "m" [] c = "N" -> "n" [] c = "O" -> "o" [] c = "P" -> "p"
      [] c = "Q" -> "q" [] c = "R" -> "r" [] c = "S" -> "s" [] c = "T" -> "t"
      [] c = "U" -> "u" [] c = "V" -> "v" [] c = "W" -> "w" [] c = "X" -> "x"
      [] c = "Y" -> "y" [] c = "Z" -> "z" [] OTHER -> c

\* s.lower()
lower(s) == [i \in 1..Len(s) |-> LowerChar(s[i])]

\* s.startswith(p), s.endswith(p)
startswith(s, p) == Len(s) >= Len(p) /\ SubSeq(s, 1, Len(p)) = p

endswith(s, p) == Len(s) >= Len(p) /\ SubSeq(s, Len(s) - Len(p) + 1, Len(s)) = p

\* sub in s
contains(s, sub) ==
    \E i \in 1..(Len(s) - Len(sub) + 1) : SubSeq(s, i, i + Len(sub) - 1) = sub

\* s.find(sub, start), 1-based; 0 when there is no occurrence (Python: -1)
find(s, sub, start) ==
    LET hits == {i \in start..(Len(s) - Len(sub) + 1) :
                    SubSeq(s, i, i + Len(sub) - 1) = sub}
    IN  IF hits = {} THEN 0 ELSE CHOOSE i \in hits : \A j \in hits : i <= j

\* s.count(sub): non-overlapping occurrences, scanned left to right
RECURSIVE countFrom(_, _, _)
countFrom(s, sub, i) ==
    LET hit == find(s, sub, i)
    IN  IF hit = 0 THEN 0 ELSE 1 + countFrom(s, sub, hit + Len(sub))

count(s, sub) ==
    IF Len(sub) = 1
    THEN Cardinality({i \in 1..Len(s) : s[i] = sub[1]})
    ELSE countFrom(s, sub, 1)

\* s.rfind(sub), 1-based; 0 when there is no occurrence
rfind(s, sub) ==
    LET hits == {i \in 1..(Len(s) - Len(sub) + 1) :
                    SubSeq(s, i, i + Len(sub) - 1) = sub}
    IN  IF hits = {} THEN 0 ELSE CHOOSE i \in hits : \A j \in hits : i >= j

\* s.partition(c)[0] and s.partition(c)[2]
before(s, c) ==
    LET i == find(s, c, 1) IN IF i = 0 THEN s ELSE SubSeq(s, 1, i - 1)

after(s, c) ==
    LET i == find(s, c, 1)
    IN  IF i = 0 THEN <<>> ELSE SubSeq(s, i + Len(c), Len(s))

\* s.rpartition(c)[-1]
afterLast(s, c) ==
    LET i == rfind(s, c) IN IF i = 0 THEN s ELSE SubSeq(s, i + Len(c), Len(s))

\* s.split(c): the list of pieces (one piece more than occurrences of c)
RECURSIVE split(_, _)
split(s, c) ==
    LET i == find(s, c, 1)
    IN  IF i = 0 THEN <<s>>
        ELSE <<SubSeq(s, 1, i - 1)>> \o split(SubSeq(s, i + Len(c), Len(s)), c)

\* c.join(pieces)
RECURSIVE join(_, _)
join(pieces, c) ==
    IF pieces = <<>> THEN <<>>
    ELSE IF Len(pieces) = 1 THEN pieces[1]
    ELSE pieces[1] \o c \o join(Tail(pieces), c)

\* the characters of s, as a set
chars(s) == {s[i] : i \in 1..Len(s)}

\* ------------------------------------------------------------------------
\* urllib.parse.urlparse, for str input without ';', control characters or
\* non-ASCII characters (none occurs in the URLs below)
\* ------------------------------------------------------------------------

\* ipaddress.ip_address accepting an IPv6 literal: here only the shape
\* (hexadecimal groups and at least two colons)
bracketed_host_ok(h) ==
    /\ chars(h) \subseteq Digits \cup {"a", "b", "c", "d", "e", "f", ":"}
    /\ count(h, <<":">>) >= 2

\* the index of the ':' that ends the scheme; 0 when the URL has no scheme
scheme_end(url) ==
    LET i == find(url, <<":">>, 1)
    IN  IF /\ i > 1
           /\ url[1] \in LowerLetters \cup UpperLetters
           /\ \A j \in 1..(i - 1) : url[j] \in scheme_chars
        THEN i ELSE 0

\* _splitnetloc(url, 2): the index of the first of '/', '?', '#' after the
\* leading '//', or one past the end
netloc_end(rest) ==
    LET stops == {k \in 3..Len(rest) : rest[k] \in {"/", "?", "#"}}
    IN  IF stops = {} THEN Len(rest) + 1
        ELSE CHOOSE k \in stops : \A m \in stops : k <= m

\* the bracket checks on the authority
netloc_raises(netloc) ==
    \/ ("[" \in chars(netloc)) /= ("]" \in chars(netloc))
    \/ /\ "[" \in chars(netloc)
       /\ "]" \in chars(netloc)
       /\ ~bracketed_host_ok(before(after(netloc, <<"[">>), <<"]">>))

\* fragment and query split off what follows the authority
urlsplit_tail(scheme, netloc, rest) ==
    [raises |-> netloc_raises(netloc),
     scheme |-> scheme,
     netloc |-> netloc,
     path   |-> before(before(rest, <<"#">>), <<"?">>),
     query  |-> after(before(rest, <<"#">>), <<"?">>)]

urlsplit_rest(scheme, rest) ==
    IF startswith(rest, <<"/", "/">>)
    THEN urlsplit_tail(scheme, SubSeq(rest, 3, netloc_end(rest) - 1),
                       SubSeq(rest, netloc_end(rest), Len(rest)))
    ELSE urlsplit_tail(scheme, <<>>, rest)

\* [raises |-> the call raises ValueError, scheme, netloc, path, query]
urlparse(url) ==
    IF scheme_end(url) > 0
    THEN urlsplit_rest(lower(SubSeq(url, 1, scheme_end(url) - 1)),
                       SubSeq(url, scheme_end(url) + 1, Len(url)))
    ELSE urlsplit_rest(<<>>, url)

\* ------------------------------------------------------------------------
\* tldextract.extract: split of the host into subdomain, domain and suffix
\* against the public suffix list (here the entries the URLs below need)
\* ------------------------------------------------------------------------

PublicSuffixes ==
    {<<"c", "o", "m">>, <<"o", "r", "g">>, <<"n", "e", "t">>, <<"t", "k">>, <<"m", "l">>, <<"g", "a">>, <<"c", "f">>, <<"g", "q">>, <<"x", "y", "z">>,
     <<"t", "o", "p">>, <<"u", "k">>, <<"c", "o", ".", "u", "k">>}

\* tldextract's _schemeless_url
schemeless_url(url) ==
    LET d == find(url, <<"/", "/">>, 1)
    IN  IF d = 1 THEN SubSeq(url, 3, Len(url))
        ELSE IF \/ d < 3
                \/ url[d - 1] /= ":"
                \/ ~(chars(SubSeq(url, 1, d - 2)) \subseteq scheme_chars)
             THEN url
             ELSE SubSeq(url, d + 2, Len(url))

strip_root_dot(host) ==
    IF endswith(host, <<".">>) THEN SubSeq(host, 1, Len(host) - 1) ELSE host

\* tldextract's lenient_netloc: scheme, path, query, fragment, userinfo and
\* port removed, one trailing root dot dropped
lenient_netloc(url) ==
    strip_root_dot(
        before(afterLast(before(before(before(schemeless_url(url), <<"/">>),
                                       <<"?">>), <<"#">>), <<"@">>), <<":">>))

\* the value of a string of decimal digits
RECURSIVE digitsValue(_)
digitsValue(s) ==
    IF s = <<>> THEN 0
    ELSE 10 * digitsValue(SubSeq(s, 1, Len(s) - 1))
         + (CHOOSE v \in 0..9 :
                <<"0", "1", "2", "3", "4", "5", "6", "7", "8", "9">>[v + 1] = s[Len(s)])

\* tldextract's looks_like_ip: four decimal octets, each at most 255
looks_like_ip(host) ==
    LET labels == split(host, <<".">>)
    IN  /\ Len(labels) = 4
        /\ \A k \in 1..4 :
              /\ Len(labels[k]) \in 1..3
              /\ chars(labels[k]) \subseteq Digits
              /\ digitsValue(labels[k]) <= 255

\* the index of the first label of the longest public suffix the labels end
\* with; one past the last label when there is none
suffix_start(labels) ==
    LET n      == Len(labels)
        lmatch == {j \in 1..Len(labels) :
                      lower(join(SubSeq(labels, j, Len(labels)), <<".">>))
                          \in PublicSuffixes}
    IN  IF lmatch = {} THEN n + 1
        ELSE CHOOSE j \in lmatch : \A m \in lmatch : j <= m

tld_parts(host, labels, sfx) ==
    IF sfx = Len(labels) + 1 /\ Len(labels) = 4 /\ looks_like_ip(host)
    THEN [subdomain |-> <<>>, domain |-> host, suffix |-> <<>>]
    ELSE [subdomain |-> IF sfx >= 3
                        THEN join(SubSeq(labels, 1, sfx - 2), <<".">>)
                        ELSE <<>>,
          domain    |-> IF sfx >= 2 THEN labels[sfx - 1] ELSE <<>>,
          suffix    |-> IF sfx = Len(labels) + 1 THEN <<>>
                        ELSE join(SubSeq(labels, sfx, Len(labels)), <<".">>)]

tld_of_host(host) ==
    tld_parts(host, split(host, <<".">>), suffix_start(split(host, <<".">>)))

\* [subdomain, domain, suffix] of the URL
tldextract_extract(url) == tld_of_host(lenient_netloc(url))

\* ------------------------------------------------------------------------
\* URLFeatureExtractor
\* ------------------------------------------------------------------------

\* round(1000 * log2(k)) for k = 1..100
Log2Milli ==
    <<0, 1000, 1585, 2000, 2322, 2585, 2807, 3000, 3170, 3322, 3459, 3585,
      3700, 3807, 3907, 4000, 4087, 4170, 4248, 4322, 4392, 4459, 4524, 4585,
      4644, 4700, 4755, 4807, 4858, 4907, 4954, 5000, 5044, 5087, 5129, 5170,
      5209, 5248, 5285, 5322, 5358, 5392, 5426, 5459, 5492, 5524, 5555, 5585,
      5615, 5644, 5672, 5700, 5728, 5755, 5781, 5807, 5833, 5858, 5883, 5907,
      5931, 5954, 5977, 6000, 6022, 6044, 6066, 6087, 6109, 6129, 6150, 6170,
      6190, 6209, 6229, 6248, 6267, 6285, 6304, 6322, 6340, 6358, 6375, 6392,
      6409, 6426, 6443, 6459, 6476, 6492, 6508, 6524, 6539, 6555, 6570, 6585,
      6600, 6615, 6629, 6644>>

RECURSIVE sumOver(_, _)
sumOver(S, f) ==
    IF S = {} THEN 0
    ELSE LET x == CHOOSE y \in S : TRUE IN f[x] + sumOver(S \ {x}, f)

\* Shannon entropy of the string, in thousandths of a bit:
\* - sum p * log2(p) with p = count / length
calculate_entropy(string) ==
    IF string = <<>> THEN 0
    ELSE LET length == Len(string)
             freq   == [c \in chars(string) |-> count(string, <<c>>)]
             term   == [c \in chars(string) |->
                           freq[c] * (Log2Milli[length] - Log2Milli[freq[c]])]
         IN  sumOver(chars(string), term) \div length

\* the name list with the second name misspelt
get_feature_names_renamed ==
    <<"url_length", "hostname_length", "has_https", "has_http",
      "num_dots", "num_hyphens", "num_underscores", "num_slashes",
      "num_question_marks", "num_equal_signs", "num_at_symbols",
      "num_ampersands", "num_percent_signs", "has_at_symbol",
      "has_double_slash_redirect", "num_digits", "digit_ratio",
      "subdomain_length", "has_subdomain", "num_subdomains",
      "path_length", "num_path_tokens", "has_query_params",
      "num_query_params", "is_ip_address", "has_port",
      "tld_length", "has_suspicious_tld", "has_phishing_keyword",
      "url_entropy">>

get_feature_names ==
    <<"url_length", "domain_length", "has_https", "has_http",
      "num_dots", "num_hyphens", "num_underscores", "num_slashes",
      "num_question_marks", "num_equal_signs", "num_at_symbols",
      "num_ampersands", "num_percent_signs", "has_at_symbol",
      "has_double_slash_redirect", "num_digits", "digit_ratio",
      "subdomain_length", "has_subdomain", "num_subdomains",
      "path_length", "num_path_tokens", "has_query_params",
      "num_query_params", "is_ip_address", "has_port",
      "tld_length", "has_suspicious_tld", "has_phishing_keyword",
      "url_entropy">>

suspicious_tlds == {<<".", "t", "k">>, <<".", "m", "l">>, <<".", "g", "a">>, <<".", "c", "f">>, <<".", "g", "q">>, <<".", "x", "y", "z">>, <<".", "t", "o", "p">>}

phishing_keywords ==
    {<<"l", "o", "g", "i", "n">>, <<"s", "i", "g", "n", "i", "n">>, <<"a", "c", "c", "o", "u", "n", "t">>, <<"u", "p", "d", "a", "t", "e">>, <<"c", "o", "n", "f", "i", "r", "m">>, <<"v", "e", "r", "i", "f", "y">>,
     <<"s", "e", "c", "u", "r", "e">>, <<"e", "b", "a", "y">>, <<"p", "a", "y", "p", "a", "l">>, <<"a", "m", "a", "z", "o", "n">>, <<"b", "a", "n", "k">>, <<"a", "p", "p", "l", "e">>}

\* re.match(r'^\d{1,3}\.\d{1,3}\.\d{1,3}\.\d{1,3}$', host)
ip_pattern(host) ==
    LET groups == split(host, <<".">>)
    IN  /\ Len(groups) = 4
        /\ \A k \in 1..4 : Len(groups[k]) \in 1..3 /\ chars(groups[k]) \subseteq Digits

\* the features set before the try block (lines 28-52); netloc is the
\* authority urlparse returned at line 29
raw_features(url, netloc) ==
    LET num_digits == Cardinality({i \in 1..Len(url) : url[i] \in Digits})
    IN  [url_length                |-> Len(url),
         domain_length             |-> Len(netloc),
         has_https                 |-> IF startswith(url, <<"h", "t", "t", "p", "s", ":", "/", "/">>) THEN 1 ELSE 0,
         has_http                  |-> IF startswith(url, <<"h", "t", "t", "p", ":", "/", "/">>) THEN 1 ELSE 0,
         num_dots                  |-> count(url, <<".">>),
         num_hyphens               |-> count(url, <<"-">>),
         num_underscores           |-> count(url, <<"_">>),
         num_slashes               |-> count(url, <<"/">>),
         num_question_marks        |-> count(url, <<"?">>),
         num_equal_signs           |-> count(url, <<"=">>),
         num_at_symbols            |-> count(url, <<"@">>),
         num_ampersands            |-> count(url, <<"&">>),
         num_percent_signs         |-> count(url, <<"%">>),
         has_at_symbol             |-> IF contains(url, <<"@">>) THEN 1 ELSE 0,
         has_double_slash_redirect |-> IF count(url, <<"/", "/">>) > 1 THEN 1 ELSE 0,
         num_digits                |-> num_digits,
         digit_ratio               |-> IF Len(url) > 0
                                       THEN (1000 * num_digits) \div Len(url)
                                       ELSE 0]

\* the try block with has_port set from the colon alone
parsed_features_port_any(url, parsed, extracted) ==
    [subdomain_length   |-> Len(extracted.subdomain),
     has_subdomain      |-> IF extracted.subdomain /= <<>> THEN 1 ELSE 0,
     num_subdomains     |-> IF extracted.subdomain /= <<>>
                            THEN Len(split(extracted.subdomain, <<".">>))
                            ELSE 0,
     path_length        |-> Len(parsed.path),
     num_path_tokens    |-> Len(split(parsed.path, <<"/">>)),
     has_query_params   |-> IF parsed.query /= <<>> THEN 1 ELSE 0,
     num_query_params   |-> IF parsed.query /= <<>>
                            THEN Len(split(parsed.query, <<"&">>))
                            ELSE 0,
     is_ip_address      |-> IF ip_pattern(split(parsed.netloc, <<":">>)[1]) THEN 1 ELSE 0,
     has_port           |-> IF contains(parsed.netloc, <<":">>) THEN 1 ELSE 0,
     tld_length         |-> Len(extracted.suffix),
     has_suspicious_tld |-> IF \E tld \in suspicious_tlds : endswith(url, tld)
                            THEN 1 ELSE 0]

\* the try block with has_suspicious_tld set from the extracted suffix
parsed_features_suffix_field(url, parsed, extracted) ==
    [subdomain_length   |-> Len(extracted.subdomain),
     has_subdomain      |-> IF extracted.subdomain /= <<>> THEN 1 ELSE 0,
     num_subdomains     |-> IF extracted.subdomain /= <<>>
                            THEN Len(split(extracted.subdomain, <<".">>))
                            ELSE 0,
     path_length        |-> Len(parsed.path),
     num_path_tokens    |-> Len(split(parsed.path, <<"/">>)),
     has_query_params   |-> IF parsed.query /= <<>> THEN 1 ELSE 0,
     num_query_params   |-> IF parsed.query /= <<>>
                            THEN Len(split(parsed.query, <<"&">>))
                            ELSE 0,
     is_ip_address      |-> IF ip_pattern(split(parsed.netloc, <<":">>)[1]) THEN 1 ELSE 0,
     has_port           |-> IF /\ contains(parsed.netloc, <<":">>)
                               /\ ~ip_pattern(split(parsed.netloc, <<":">>)[1])
                            THEN 1 ELSE 0,
     tld_length         |-> Len(extracted.suffix),
     has_suspicious_tld |-> IF \E tld \in suspicious_tlds : tld = <<".">> \o extracted.suffix
                            THEN 1 ELSE 0]

\* the features the try block sets (lines 55-84)
parsed_features(url, parsed, extracted) ==
    LET is_ip == IF ip_pattern(split(parsed.netloc, <<":">>)[1]) THEN 1 ELSE 0
    IN  [subdomain_length   |-> Len(extracted.subdomain),
         has_subdomain      |-> IF extracted.subdomain /= <<>> THEN 1 ELSE 0,
         num_subdomains     |-> IF extracted.subdomain /= <<>>
                                THEN Len(split(extracted.subdomain, <<".">>))
                                ELSE 0,
         path_length        |-> Len(parsed.path),
         num_path_tokens    |-> Len(split(parsed.path, <<"/">>)),
         has_query_params   |-> IF parsed.query /= <<>> THEN 1 ELSE 0,
         num_query_params   |-> IF parsed.query /= <<>>
                                THEN Len(split(parsed.query, <<"&">>))
                                ELSE 0,
         is_ip_address      |-> is_ip,
         has_port           |-> IF contains(parsed.netloc, <<":">>) /\ is_ip = 0
                                THEN 1 ELSE 0,
         tld_length         |-> Len(extracted.suffix),
         has_suspicious_tld |-> IF \E tld \in suspicious_tlds : endswith(url, tld)
                                THEN 1 ELSE 0]

\* the features the except block sets (lines 86-98)
default_features ==
    [subdomain_length |-> 0, has_subdomain |-> 0, num_subdomains |-> 0,
     path_length |-> 0, num_path_tokens |-> 0, has_query_params |-> 0,
     num_query_params |-> 0, is_ip_address |-> 0, has_port |-> 0,
     tld_length |-> 0, has_suspicious_tld |-> 0]

\* the features set after the try statement (lines 100-108)
tail_features(url) ==
    [has_phishing_keyword |-> IF \E keyword \in phishing_keywords :
                                     contains(lower(url), keyword)
                              THEN 1 ELSE 0,
     url_entropy          |-> calculate_entropy(url)]

\* lines 25-110 once urlparse(url) of line 29 is known
extract_with(url, tldFails, parsed) ==
    IF parsed.raises
    THEN \* line 29 is outside the try block: the ValueError escapes
         [exc |-> "ValueError", features |-> <<>>]
    ELSE [exc      |-> "none",
          features |-> raw_features(url, parsed.netloc)
                       @@ (IF tldFails THEN default_features
                           ELSE parsed_features(url, parsed, tldextract_extract(url)))
                       @@ tail_features(url)]

\* extract_features(url).  tldFails: the suffix-list lookup of line 57 raises
\* (the one call of the try block that can fail once line 29 has passed).
\* [exc |-> the exception that escapes, or "none"; features |-> the dict]
extract_features(url, tldFails) == extract_with(url, tldFails, urlparse(url))

\* ------------------------------------------------------------------------
\* The URLs requests are drawn from
\* ------------------------------------------------------------------------

U_github == <<"h", "t", "t", "p", "s", ":", "/", "/", "g", "i", "t", "h", "u", "b", ".", "c", "o", "m">>

U_paypal_tk == <<"h", "t", "t", "p", ":", "/", "/", "p", "a", "y", "p", "a", "l", "-", "s", "e", "c", "u", "r", "e", "-", "l", "o", "g", "i", "n", ".", "t", "k">>

U_ip_tk == <<"h", "t", "t", "p", ":", "/", "/", "1", "9", "2", ".", "1", "6", "8", ".", "1", ".", "1", "/", "p", "a", "y", "p", "a", "l", "-", "l", "o", "g", "i", "n", "-", "v", "e", "r", "i", "f", "y", ".", "t", "k">>

\* urlparse raises "Invalid IPv6 URL"
U_bracket == <<"h", "t", "t", "p", ":", "/", "/", "[">>

U_dots == <<"h", "t", "t", "p", ":", "/", "/", "a", ".", "b", ".", "c", ".", "d", ".", "e">>

U_example == <<"h", "t", "t", "p", ":", "/", "/", "e", "x", "a", "m", "p", "l", "e", ".", "c", "o", "m">>

U_noscheme == <<"e", "x", "a", "m", "p", "l", "e", ".", "c", "o", "m">>

U_ip_port == <<"h", "t", "t", "p", ":", "/", "/", "9", "9", "9", ".", "9", "9", "9", ".", "9", "9", "9", ".", "9", "9", "9", ":", "8", "0", "/">>

U_port_query == <<"h", "t", "t", "p", ":", "/", "/", "m", "a", "i", "l", ".", "e", "x", "a", "m", "p", "l", "e", ".", "c", "o", ".", "u", "k", ":", "8", "0", "8", "0", "/", "a", "/", "b", "?", "x", "=", "1", "&", "y", "=", "2">>

U_at_xyz == <<"h", "t", "t", "p", ":", "/", "/", "u", "s", "e", "r", "@", "e", "v", "i", "l", ".", "c", "o", "m", "/", "x", ".", "x", "y", "z">>

U_userinfo_ip == <<"h", "t", "t", "p", ":", "/", "/", "1", "9", "2", ".", "1", "6", "8", ".", "1", ".", "1", ":", "p", "w", "@", "e", "v", "i", "l", ".", "c", "o", "m", "/">>

U_secure == <<"h", "t", "t", "p", ":", "/", "/", "s", "e", "c", "u", "r", "e", "-", "b", "a", "n", "k", ".", "c", "o", "m">>

U_upper == <<"h", "t", "t", "p", ":", "/", "/", "P", "a", "y", "P", "a", "l", ".", "c", "o", "m", "/", "/", "r">>

\* 90 characters, 5 dots, 'confirm' with 4 hyphens
U_long ==
    <<"h", "t", "t", "p", ":", "/", "/", "a", ".", "b", ".", "c", ".", "d", ".", "e", "x", "a", "m", "p", "l", "e", ".", "c", "o", "m", "/", "x", "x", "x", "x", "x", "x", "x", "x", "x", "x", "x", "x", "x", "x", "x", "x", "x", "x", "x", "x", "x", "x", "x", "x", "x", "x", "x", "x", "x", "x", "x", "x", "x", "x", "x", "x", "x", "x", "x", "x", "/", "c", "o", "n", "f", "i", "r", "m", "-", "a", "-", "b", "-", "c", "-", "d", "?", "q", "=", "%", "2", "0", "_">>

Urls ==
    {U_github, U_paypal_tk, U_ip_tk, U_bracket, U_dots, U_example, <<>>,
     U_noscheme, U_ip_port, U_port_query, U_at_xyz, U_secure, U_upper, U_long,
     U_userinfo_ip}

\* memo of extract_features over the request inputs
Features == [u \in Urls, tldFails \in BOOLEAN |-> extract_features(u, tldFails)]

\* ------------------------------------------------------------------------
\* State
\* ------------------------------------------------------------------------

\* ModelLoader._model = None; a held artifact is the number of the
\* pickle.load call that created it (1, 2, ...)
None == 0

\* model_path = None selects models/phishing_model.pkl
Paths == {"models/phishing_model.pkl", "other.pkl"}

DefaultPath == "models/phishing_model.pkl"

VARIABLES
    _model,     \* ModelLoader._model of the singleton
    _instance,  \* ModelLoader._instance: None or the singleton (1)
    storage,    \* what each path holds: "missing", "corrupt" or "valid"
    loads,      \* pickle.load calls that have returned an artifact
    started,    \* startup_event has run
    op,         \* the last operation and its arguments
    result,     \* what it returned or raised: [exc, value]
    branch,     \* the code path it took: [path, artifact]
    log,        \* the log messages it emitted
    io,         \* the storage calls it made
    pc,         \* per thread: position inside a load_model call
    frame       \* per thread: the locals of that call

vars == <<_model, _instance, storage, loads, started, op, result, branch, log, io,
          pc, frame>>

handlerUnchanged == <<_model, _instance, storage, loads, started, pc, frame>>

\* ------------------------------------------------------------------------
\* ModelLoader (model_loader.py)
\* ------------------------------------------------------------------------

\* ModelLoader(): __new__ returns the one instance, creating it when absent
ModelLoader_new(inst) == IF inst = None THEN 1 ELSE inst

\* pickle.load on what the path holds; obj is the new object when it succeeds
pickle_load(content, obj) ==
    IF content = "valid" THEN [exc |-> "none", value |-> obj]
    ELSE [exc |-> "UnpicklingError", value |-> None]

\* load_model with the existence check moved before the cache check
load_model_path_first(m, store, model_path, nloads) ==
    LET path   == IF model_path = "None" THEN DefaultPath ELSE model_path
        exists == <<"os.path.exists", path>>
        loaded == pickle_load(store[path], nloads + 1)
    IN  IF store[path] = "missing"
        THEN [_model |-> m, exc |-> "FileNotFoundError", value |-> None,
              io |-> <<exists>>]
        ELSE IF m /= None
        THEN [_model |-> m, exc |-> "none", value |-> m, io |-> <<exists>>]
        ELSE IF loaded.exc /= "none"
        THEN [_model |-> m, exc |-> loaded.exc, value |-> None,
              io |-> <<exists, <<"open", path>>>>]
        ELSE [_model |-> loaded.value, exc |-> "none", value |-> loaded.value,
              io |-> <<exists, <<"open", path>>>>]

\* load_model that reloads whenever a path is passed, dropping the held
\* artifact first
load_model_reloads(m, store, model_path, nloads) ==
    LET path   == IF model_path = "None" THEN DefaultPath ELSE model_path
        exists == <<"os.path.exists", path>>
        loaded == pickle_load(store[path], nloads + 1)
    IN  IF m /= None /\ model_path = "None"
        THEN [_model |-> m, exc |-> "none", value |-> m, io |-> <<>>]
        ELSE IF store[path] = "missing"
        THEN [_model |-> None, exc |-> "FileNotFoundError", value |-> None,
              io |-> <<exists>>]
        ELSE IF loaded.exc /= "none"
        THEN [_model |-> None, exc |-> loaded.exc, value |-> None,
              io |-> <<exists, <<"open", path>>>>]
        ELSE [_model |-> loaded.value, exc |-> "none", value |-> loaded.value,
              io |-> <<exists, <<"open", path>>>>]

\* load_model that reports every failure as the same RuntimeError
load_model_one_error(m, store, model_path, nloads) ==
    LET path   == IF model_path = "None" THEN DefaultPath ELSE model_path
        exists == <<"os.path.exists", path>>
        loaded == pickle_load(store[path], nloads + 1)
    IN  IF m /= None
        THEN [_model |-> m, exc |-> "none", value |-> m, io |-> <<>>]
        ELSE IF store[path] = "missing"
        THEN [_model |-> m, exc |-> "RuntimeError", value |-> None,
              io |-> <<exists>>]
        ELSE IF loaded.exc /= "none"
        THEN [_model |-> m, exc |-> "RuntimeError", value |-> None,
              io |-> <<exists, <<"open", path>>>>]
        ELSE [_model |-> loaded.value, exc |-> "none", value |-> loaded.value,
              io |-> <<exists, <<"open", path>>>>]

\* load_model(model_path) as one call running alone.
\* [_model |-> the field afterwards, exc, value |-> what it returns, io]
load_model(m, store, model_path, nloads) ==
    LET path   == IF model_path = "None" THEN DefaultPath ELSE model_path
        exists == <<"os.path.exists", path>>
        loaded == pickle_load(store[path], nloads + 1)
    IN  IF m /= None
        THEN [_model |-> m, exc |-> "none", value |-> m, io |-> <<>>]
        ELSE IF store[path] = "missing"
        THEN [_model |-> m, exc |-> "FileNotFoundError", value |-> None,
              io |-> <<exists>>]
        ELSE IF loaded.exc /= "none"
        THEN [_model |-> m, exc |-> loaded.exc, value |-> None,
              io |-> <<exists, <<"open", path>>>>]
        ELSE [_model |-> loaded.value, exc |-> "none", value |-> loaded.value,
              io |-> <<exists, <<"open", path>>>>]

\* get_model()
get_model(m) ==
    IF m = None THEN [exc |-> "RuntimeError", value |-> None]
    ELSE [exc |-> "none", value |-> m]

\* ------------------------------------------------------------------------
\* The artifact: an opaque object with predict and predict_proba.  What a
\* call on it does is an input of the request: the class of the row and the
\* probability vector (millionths), or the exception it raises.
\* ------------------------------------------------------------------------

ProbaVectors ==
    {<<100000, 900000>>, <<900000, 100000>>, <<300000, 700000>>,
     <<400000, 600000>>, <<100004, 899996>>, <<500000, 500000>>, <<1000000>>}

ArtifactErrors == {"ValueError", "RuntimeError", "IndexError"}

ModelOutcomes ==
    [predict : [exc : {"none"}, value : {0, 1}],
     predict_proba : [exc : {"none"}, value : ProbaVectors]]
    \cup [predict : [exc : ArtifactErrors, value : {0}],
          predict_proba : [exc : {"none"}, value : {<<100000, 900000>>}]]
    \cup [predict : [exc : {"none"}, value : {1}],
          predict_proba : [exc : ArtifactErrors, value : {<<>>}]]

\* the first exception model.predict, model.predict_proba raise, or "none"
artifact_exc(outcome) ==
    IF outcome.predict.exc /= "none" THEN outcome.predict.exc
    ELSE outcome.predict_proba.exc

\* ModelLoader.predict(features) and ModelLoader.predict_proba(features)
ModelLoader_predict(m, outcome) ==
    IF get_model(m).exc /= "none" THEN get_model(m) ELSE outcome.predict

ModelLoader_predict_proba(m, outcome) ==
    IF get_model(m).exc /= "none" THEN get_model(m) ELSE outcome.predict_proba

\* ------------------------------------------------------------------------
\* Decisions (main.py)
\* ------------------------------------------------------------------------

Max(s) == CHOOSE x \in {s[i] : i \in 1..Len(s)} : \A i \in 1..Len(s) : s[i] <= x

\* round(x / unit), ties to even
Round(x, unit) ==
    LET q == x \div unit
        r == x % unit
    IN  IF 2 * r < unit THEN q
        ELSE IF 2 * r > unit THEN q + 1
        ELSE IF q % 2 = 0 THEN q ELSE q + 1

MsgHigh == "HIGH RISK: This URL is highly likely to be a phishing attempt. Do not proceed."

MsgMedium == "MEDIUM RISK: This URL shows signs of phishing. Proceed with caution."

MsgLow == "LOW RISK: This URL may be suspicious. Verify before proceeding."

MsgLegit == "This URL appears to be legitimate."

MsgDemo == "Demo mode prediction (model not trained yet)"

\* URLRequest.validate_url, and the scheme check of scan_url_direct
\* a validator that accepts anything with a dot in it
validate_url_any_host(v) == contains(v, <<".">>)

validate_url(v) == startswith(v, <<"h", "t", "t", "p", ":", "/", "/">>) \/ startswith(v, <<"h", "t", "t", "p", "s", ":", "/", "/">>)

\* the model decision with the first entry of the probability vector taken
\* as the phishing probability
model_decision_first_entry(url, features, outcome) ==
    [url        |-> url,
     prediction |-> IF outcome.predict.value = 1 THEN "Phishing" ELSE "Benign",
     confidence |-> Round(Max(outcome.predict_proba.value), 100),
     risk_score |-> <<Round(outcome.predict_proba.value[1], 100), 100>>,
     features   |-> features,
     message    |-> IF outcome.predict.value /= 1 THEN MsgLegit
                    ELSE IF outcome.predict_proba.value[1] >= 900000 THEN MsgHigh
                    ELSE IF outcome.predict_proba.value[1] >= 700000 THEN MsgMedium
                    ELSE MsgLow]

\* lines 163-191: the decision from the model's output
model_decision(url, features, outcome) ==
    LET prediction    == outcome.predict.value
        probabilities == outcome.predict_proba.value
        phishing_probability ==
            IF Len(probabilities) > 1 THEN probabilities[2] ELSE probabilities[1]
        confidence    == Max(probabilities)
        \* risk_score = phishing_probability * 100: 90 is 900000 millionths
        prediction_label == IF prediction = 1 THEN "Phishing" ELSE "Benign"
        message ==
            IF prediction_label = "Phishing"
            THEN IF phishing_probability >= 900000 THEN MsgHigh
                 ELSE IF phishing_probability >= 700000 THEN MsgMedium
                 ELSE MsgLow
            ELSE MsgLegit
    IN  [url        |-> url,
         prediction |-> prediction_label,
         confidence |-> Round(confidence, 100),
         risk_score |-> <<Round(phishing_probability, 100), 100>>,
         features   |-> features,
         message    |-> message]

\* lines 198-210
risk_indicators(features) ==
    (IF features.has_at_symbol /= 0 THEN 1 ELSE 0)
    + (IF features.is_ip_address /= 0 THEN 1 ELSE 0)
    + (IF features.has_suspicious_tld /= 0 THEN 1 ELSE 0)
    + (IF features.has_phishing_keyword /= 0 THEN 1 ELSE 0)
    + (IF features.url_length > 75 THEN 1 ELSE 0)
    + (IF features.num_dots > 4 THEN 1 ELSE 0)

\* the demo decision with the label threshold at two indicators
heuristic_decision_two(url, features) ==
    [url        |-> url,
     prediction |-> IF risk_indicators(features) >= 2 THEN "Phishing" ELSE "Benign",
     confidence |-> IF risk_indicators(features) >= 2 THEN 7500 ELSE 8000,
     risk_score |-> <<risk_indicators(features) * 100, 6>>,
     features   |-> features,
     message    |-> MsgDemo]

\* lines 212-225: the demo decision
heuristic_decision(url, features) ==
    LET k == risk_indicators(features)
    IN  [url        |-> url,
         prediction |-> IF k >= 3 THEN "Phishing" ELSE "Benign",
         confidence |-> IF k >= 3 THEN 7500 ELSE 8000,
         risk_score |-> IF k * 100 > 100 * 6 THEN <<100, 1>> ELSE <<k * 100, 6>>,
         features   |-> features,
         message    |-> MsgDemo]

HTTPException(status_code, detail) ==
    [exc |-> "HTTPException", value |-> [status_code |-> status_code, detail |-> detail]]

\* predict_url(request): [result, branch, log]
predict_url(m, url, tldFails, outcome) ==
    LET extracted == Features[url, tldFails]
        got       == get_model(m)
    IN  IF extracted.exc /= "none"
        THEN \* line 227: except ValueError
             [result |-> HTTPException(400, "Invalid IPv6 URL"),
              branch |-> [path |-> "extract_raised", artifact |-> "not_called"],
              log    |-> <<"Validation error">>]
        ELSE IF got.exc = "RuntimeError"
        THEN \* line 193: except RuntimeError, raised by get_model
             [result |-> [exc |-> "none",
                          value |-> heuristic_decision(url, extracted.features)],
              branch |-> [path |-> "not_loaded", artifact |-> "not_called"],
              log    |-> <<"Model not loaded. Using heuristic-based demo prediction.">>]
        ELSE IF artifact_exc(outcome) = "RuntimeError"
        THEN \* line 193: except RuntimeError, raised by the artifact
             [result |-> [exc |-> "none",
                          value |-> heuristic_decision(url, extracted.features)],
              branch |-> [path |-> "not_loaded", artifact |-> "RuntimeError"],
              log    |-> <<"Model not loaded. Using heuristic-based demo prediction.">>]
        ELSE IF artifact_exc(outcome) = "ValueError"
        THEN \* line 227: except ValueError
             [result |-> HTTPException(400, "artifact error"),
              branch |-> [path |-> "http_error", artifact |-> "ValueError"],
              log    |-> <<"Validation error">>]
        ELSE IF artifact_exc(outcome) /= "none"
        THEN \* line 230: except Exception
             [result |-> HTTPException(500, "Internal server error"),
              branch |-> [path |-> "http_error", artifact |-> artifact_exc(outcome)],
              log    |-> <<"Prediction error">>]
        ELSE [result |-> [exc |-> "none",
                          value |-> model_decision(url, extracted.features, outcome)],
              branch |-> [path |-> "model", artifact |-> "returned"],
              log    |-> <<"Prediction">>]

\* lines 299-308: the pattern rules of the `model is None` branch
six_rule_is_phishing(url) ==
    \/ contains(lower(url), <<"s", "e", "c", "u", "r", "e", "-">>) /\ (contains(url, <<".", "t", "k">>) \/ contains(url, <<".", "m", "l">>))
    \/ contains(lower(url), <<"v", "e", "r", "i", "f", "y">>) /\ Len(url) > 50
    \/ contains(lower(url), <<"l", "o", "g", "i", "n", ".", "p", "h", "p">>)
    \/ contains(lower(url), <<"c", "o", "n", "f", "i", "r", "m">>) /\ count(url, <<"-">>) > 3
    \/ count(url, <<".">>) > 3
    \/ \E char \in {"0", "1"} : contains(url, <<char>>)

\* lines 324-326: the policy of the except branch
fallback_is_phishing(url) ==
    contains(lower(url), <<"p", "h", "i", "s", "h", "i", "n", "g">>) \/ contains(lower(url), <<"s", "e", "c", "u", "r", "e", "-">>)

\* lines 328-346: the payload of a scan decision
scan_payload(url, prediction_label, confidence) ==
    [url            |-> url,
     prediction     |-> prediction_label,
     confidence     |-> confidence,
     message        |-> IF prediction_label = "Phishing" THEN MsgHigh ELSE MsgLegit,
     responseTimeMs |-> "elapsed",
     fromCache      |-> FALSE,
     timestamp      |-> "now",
     requestId      |-> "uuid4"]

scan_error(url, error) ==
    [error |-> error, url |-> url, timestamp |-> "now", requestId |-> "uuid4"]

\* scan_url_direct(url): [result, branch, log]
scan_url_direct(m, url, tldFails, outcome) ==
    LET extracted == Features[url, tldFails]
        got       == get_model(m)
        label(is_phishing) == IF is_phishing THEN "Phishing" ELSE "Benign"
    IN  IF ~validate_url(url)
        THEN [result |-> [exc |-> "none",
                          value |-> scan_error(url, "URL must start with http:// or https://")],
              branch |-> [path |-> "rejected", artifact |-> "not_called"],
              log    |-> <<>>]
        ELSE IF extracted.exc /= "none"
        THEN \* line 348: except Exception
             [result |-> [exc |-> "none", value |-> scan_error(url, "Analysis failed")],
              branch |-> [path |-> "extract_raised", artifact |-> "not_called"],
              log    |-> <<"Direct API error">>]
        ELSE IF got.exc /= "none"
        THEN \* line 321: except Exception, raised by get_model
             [result |-> [exc |-> "none",
                          value |-> scan_payload(url, label(fallback_is_phishing(url)), 7500)],
              branch |-> [path |-> "fallback", artifact |-> "not_called"],
              log    |-> <<"Model prediction failed">>]
        ELSE IF got.value = None
        THEN \* line 297: model is None
             [result |-> [exc |-> "none",
                          value |-> scan_payload(url, label(six_rule_is_phishing(url)),
                                                 IF six_rule_is_phishing(url)
                                                 THEN 8500 ELSE 9200)],
              branch |-> [path |-> "six_rule", artifact |-> "not_called"],
              log    |-> <<>>]
        ELSE IF artifact_exc(outcome) /= "none"
        THEN \* line 321: except Exception, raised by the artifact
             [result |-> [exc |-> "none",
                          value |-> scan_payload(url, label(fallback_is_phishing(url)), 7500)],
              branch |-> [path |-> "fallback", artifact |-> artifact_exc(outcome)],
              log    |-> <<"Model prediction failed">>]
        ELSE [result |-> [exc |-> "none",
                          value |-> scan_payload(url,
                                                 label(outcome.predict.value = 1),
                                                 Round(Max(outcome.predict_proba.value), 100))],
              branch |-> [path |-> "model", artifact |-> "returned"],
              log    |-> <<>>]

\* batch_predict without the urls[:100] bound
batch_predict_unbounded(m, urls, tldFails, outcome) ==
    LET item(url) ==
            IF ~validate_url(url)
            THEN [url |-> url, error |-> "URL must start with http:// or https://"]
            ELSE IF predict_url(m, url, tldFails, outcome).result.exc /= "none"
            THEN [url |-> url,
                  error |-> predict_url(m, url, tldFails, outcome).result.value.detail]
            ELSE predict_url(m, url, tldFails, outcome).result.value
        results == [i \in 1..Len(urls) |-> item(urls[i])]
    IN  [results |-> results, total |-> Len(results)]

\* lines 246-258: batch_predict(urls), every item with the same artifact
\* behaviour
batch_predict(m, urls, tldFails, outcome) ==
    LET taken == SubSeq(urls, 1, IF Len(urls) < 100 THEN Len(urls) ELSE 100)
        item(url) ==
            IF ~validate_url(url)
            THEN [url |-> url, error |-> "URL must start with http:// or https://"]
            ELSE LET r == predict_url(m, url, tldFails, outcome).result
                 IN  IF r.exc /= "none"
                     THEN [url |-> url, error |-> r.value.detail]
                     ELSE r.value
        results == [i \in 1..Len(taken) |-> item(taken[i])]
    IN  [results |-> results, total |-> Len(results)]

Batches ==
    {<<>>,
     <<U_example, U_noscheme, U_bracket, U_paypal_tk>>,
     [i \in 1..101 |-> IF i = 100 THEN U_ip_tk ELSE IF i = 101 THEN U_github ELSE U_example],
     [i \in 1..101 |-> IF i = 2 THEN U_noscheme ELSE IF i = 3 THEN U_bracket
                        ELSE IF i = 101 THEN U_noscheme ELSE U_paypal_tk]}

BatchOutcomes ==
    {o \in ModelOutcomes :
        /\ o.predict.exc \in {"none", "ValueError"}
        /\ o.predict.value = 1
        /\ o.predict_proba.value = <<100000, 900000>>}

\* ------------------------------------------------------------------------
\* Operations
\* ------------------------------------------------------------------------

NumThreads == 2

Threads == 1..NumThreads

NoFrame == [model_path |-> "None", obj |-> None, exc |-> "none", value |-> None]

Init ==
    /\ _model = None
    /\ _instance = ModelLoader_new(None)          \* main.py line 65
    /\ storage \in [Paths -> {"missing", "corrupt", "valid"}]
    /\ loads = 0
    /\ started = "pending"
    /\ op = [name |-> "import", arg |-> <<>>]
    /\ result = [exc |-> "none", value |-> None]
    /\ branch = [path |-> "none", artifact |-> "not_called"]
    /\ log = <<>>
    /\ io = <<>>
    /\ pc = [t \in Threads |-> "idle"]
    /\ frame = [t \in Threads |-> NoFrame]

\* startup_event(): load_model() with the default path, every failure caught
startup_event(m, store, nloads) ==
    LET r == load_model(m, store, "None", nloads)
    IN  [_model  |-> r._model,
         io      |-> r.io,
         started |-> IF r.exc = "none" THEN "loaded"
                     ELSE IF r.exc = "FileNotFoundError" THEN "not_found"
                     ELSE "error",
         log     |-> IF r.exc = "none"
                     THEN <<"Loading ML model...",
                            "Model loaded successfully. API ready to serve requests.">>
                     ELSE IF r.exc = "FileNotFoundError"
                     THEN <<"Loading ML model...",
                            "Model file not found. API will run in demo mode.",
                            "Train a model using scripts/train_model.py first.">>
                     ELSE <<"Loading ML model...", "Error during startup">>]

StartupEvent ==
    /\ started = "pending"
    /\ LET s == startup_event(_model, storage, loads)
       IN  /\ _model' = s._model
           /\ loads' = IF s._model /= _model THEN loads + 1 ELSE loads
           /\ started' = s.started
           /\ log' = s.log
           /\ io' = s.io
    /\ op' = [name |-> "startup_event", arg |-> <<>>]
    /\ result' = [exc |-> "none", value |-> None]
    /\ branch' = [path |-> "none", artifact |-> "not_called"]
    /\ UNCHANGED <<_instance, storage, pc, frame>>

\* train_model.py, save_model(): the trained artifact is written to the
\* default path by the training script
SaveModel ==
    /\ storage[DefaultPath] /= "valid"
    /\ storage' = [storage EXCEPT ![DefaultPath] = "valid"]
    /\ op' = [name |-> "save_model", arg |-> <<>>]
    /\ result' = [exc |-> "none", value |-> None]
    /\ branch' = [path |-> "none", artifact |-> "not_called"]
    /\ log' = <<>>
    /\ io' = <<>>
    /\ UNCHANGED <<_model, _instance, loads, started, pc, frame>>

\* a handler that answers r = [result, branch, log]
Answer(name, arg, r) ==
    /\ op' = [name |-> name, arg |-> arg]
    /\ result' = r.result
    /\ branch' = r.branch
    /\ log' = r.log
    /\ io' = <<>>
    /\ UNCHANGED handlerUnchanged

\* the answer r of a handler that ran with the suffix-list lookup of
\* feature_extractor.py line 57 behaving as tldFails says: the branch record
\* keeps what the lookup would do
WithLookup(r, tldFails) ==
    [r EXCEPT !.branch = [path       |-> r.branch.path,
                          artifact   |-> r.branch.artifact,
                          tldextract |-> IF tldFails THEN "raises" ELSE "returns"]]

\* the same for the artifact: when model.predict and model.predict_proba
\* both returned (main.py lines 160-161, 314-315), the branch record keeps
\* what they returned
WithOutput(r, outcome) ==
    IF r.branch.artifact /= "returned" THEN r
    ELSE [r EXCEPT !.branch = [path          |-> r.branch.path,
                               artifact      |-> r.branch.artifact,
                               tldextract    |-> r.branch.tldextract,
                               prediction    |-> outcome.predict.value,
                               probabilities |-> outcome.predict_proba.value]]

\* POST /predict: the body is validated into a URLRequest, then predict_url
PostPredict(url, tldFails, outcome) ==
    IF validate_url(url)
    THEN Answer("predict_url", url,
                WithOutput(WithLookup(predict_url(_model, url, tldFails, outcome),
                                      tldFails),
                           outcome))
    ELSE Answer("URLRequest", url,
                [result |-> [exc |-> "ValidationError",
                             value |-> [status_code |-> 422,
                                        detail |-> "URL must start with http:// or https://"]],
                 branch |-> [path |-> "rejected", artifact |-> "not_called"],
                 log    |-> <<>>])

\* GET /api/v1/scan-url
ScanUrl(url, tldFails, outcome) ==
    Answer("scan_url_direct", url,
           WithOutput(WithLookup(scan_url_direct(_model, url, tldFails, outcome),
                                 tldFails),
                      outcome))

\* POST /batch-predict
BatchPredict(urls, tldFails, outcome) ==
    Answer("batch_predict", urls,
           [result |-> [exc |-> "none",
                        value |-> batch_predict(_model, urls, tldFails, outcome)],
            branch |-> [path |-> "batch", artifact |-> "not_called"],
            log    |-> <<>>])

\* GET /health
health_check(m) ==
    [status |-> "healthy", model_loaded |-> get_model(m).exc = "none"]

HealthCheck ==
    Answer("health_check", <<>>,
           [result |-> [exc |-> "none", value |-> health_check(_model)],
            branch |-> [path |-> "none", artifact |-> "not_called"],
            log    |-> <<>>])

\* GET /api/v1/health: model_loaded of the payload
health_check_direct(inst, m) ==
    LET model_loader_instance == ModelLoader_new(inst)
        got == get_model(m)
        model_loaded == IF got.exc /= "none" THEN FALSE ELSE got.value /= None
    IN  [status |-> "UP",
         ml_model |-> [status |-> IF model_loaded THEN "UP" ELSE "DOWN",
                       loaded |-> model_loaded,
                       type   |-> IF model_loaded THEN "XGBoost" ELSE "Demo Mode"]]

HealthCheckDirect ==
    Answer("health_check_direct", <<>>,
           [result |-> [exc |-> "none", value |-> health_check_direct(_instance, _model)],
            branch |-> [path |-> "none", artifact |-> "not_called"],
            log    |-> <<>>])

\* GET /api/v1/stats
get_stats_direct(inst, m) ==
    LET model_loader_instance == ModelLoader_new(inst)
        got == get_model(m)
        model_status == IF got.exc /= "none" THEN "error"
                        ELSE IF got.value /= None THEN "loaded" ELSE "demo_mode"
    IN  [status |-> "operational", model |-> model_status, version |-> "1.0.0",
         features |-> "30_url_features", algorithm |-> "XGBoost"]

GetStatsDirect ==
    Answer("get_stats_direct", <<>>,
           [result |-> [exc |-> "none", value |-> get_stats_direct(_instance, _model)],
            branch |-> [path |-> "none", artifact |-> "not_called"],
            log    |-> <<>>])

\* a direct call of URLFeatureExtractor.extract_features
ExtractFeatures(url, tldFails) ==
    Answer("extract_features", url,
           WithLookup([result |-> [exc |-> Features[url, tldFails].exc,
                                   value |-> Features[url, tldFails].features],
                       branch |-> [path |-> "none", artifact |-> "not_called"],
                       log    |-> <<>>],
                      tldFails))

\* the artifact behaviours a request can meet: none is consulted while no
\* artifact is held
Outcomes(S) == IF _model = None THEN {CHOOSE o \in S : TRUE} ELSE S

\* [features[name] for name in names]: the row, or the KeyError of a name
\* that is no key of the mapping
feature_vector(features, names) ==
    IF \E i \in 1..Len(names) : names[i] \notin DOMAIN features
    THEN [exc |-> "KeyError", value |-> <<>>]
    ELSE [exc |-> "none", value |-> [i \in 1..Len(names) |-> features[names[i]]]]

\* the name list each site builds its row from
train_feature_names == get_feature_names      \* train_model.py line 58

predict_feature_names == get_feature_names    \* main.py line 154

scan_feature_names == get_feature_names       \* main.py line 311

\* one iteration of extract_features_from_dataset (train_model.py lines
\* 56-63): the row appended to X_list, or the URL skipped on any exception
training_row(url, tldFails) ==
    IF Features[url, tldFails].exc /= "none"
    THEN [skipped |-> TRUE, row |-> <<>>]
    ELSE IF feature_vector(Features[url, tldFails].features, train_feature_names).exc /= "none"
    THEN [skipped |-> TRUE, row |-> <<>>]
    ELSE [skipped |-> FALSE,
          row |-> feature_vector(Features[url, tldFails].features, train_feature_names).value]

TrainRow(url, tldFails) ==
    Answer("extract_features_from_dataset", url,
           WithLookup([result |-> [exc |-> "none", value |-> training_row(url, tldFails)],
                       branch |-> [path |-> "none", artifact |-> "not_called"],
                       log    |-> <<>>],
                      tldFails))

Requests ==
    \/ \E url \in Urls, tldFails \in BOOLEAN, outcome \in Outcomes(ModelOutcomes) :
          PostPredict(url, tldFails, outcome)
    \/ \E url \in Urls, tldFails \in BOOLEAN, outcome \in Outcomes(ModelOutcomes) :
          ScanUrl(url, tldFails, outcome)
    \/ \E urls \in Batches, outcome \in Outcomes(BatchOutcomes) :
          BatchPredict(urls, FALSE, outcome)
    \/ HealthCheck
    \/ HealthCheckDirect
    \/ GetStatsDirect
    \/ \E url \in Urls, tldFails \in BOOLEAN : ExtractFeatures(url, tldFails)

\* The service: start-up, then requests, each handler running to completion
\* on the event loop; the training script may write the artifact meanwhile
Next ==
    \/ StartupEvent
    \/ started /= "pending" /\ Requests
    \/ SaveModel
    \/ \E url \in Urls, tldFails \in BOOLEAN : TrainRow(url, tldFails)

Spec == Init /\ [][Next]_vars

\* ------------------------------------------------------------------------
\* The gateway called directly: any sequence of load_model, get_model,
\* predict and predict_proba calls, each running alone, among the requests
\* ------------------------------------------------------------------------

Call(name, arg, r, touched) ==
    /\ op' = [name |-> name, arg |-> arg]
    /\ result' = [exc |-> r.exc, value |-> r.value]
    /\ branch' = [path |-> "none", artifact |-> "not_called"]
    /\ log' = <<>>
    /\ io' = touched
    /\ UNCHANGED <<_instance, storage, started, pc, frame>>

LoadModel(model_path) ==
    LET r == load_model(_model, storage, model_path, loads)
    IN  /\ _model' = r._model
        /\ loads' = IF r._model /= _model THEN loads + 1 ELSE loads
        /\ Call("load_model", model_path, r, r.io)

GetModel ==
    /\ Call("get_model", <<>>, get_model(_model), <<>>)
    /\ UNCHANGED <<_model, loads>>

Predict(outcome) ==
    /\ Call("predict", <<>>, ModelLoader_predict(_model, outcome), <<>>)
    /\ UNCHANGED <<_model, loads>>

PredictProba(outcome) ==
    /\ Call("predict_proba", <<>>, ModelLoader_predict_proba(_model, outcome), <<>>)
    /\ UNCHANGED <<_model, loads>>

GatewayCalls ==
    \/ \E model_path \in Paths \cup {"None"} : LoadModel(model_path)
    \/ GetModel
    \/ \E outcome \in Outcomes(BatchOutcomes) : Predict(outcome)
    \/ \E outcome \in Outcomes(BatchOutcomes) : PredictProba(outcome)

\* the request handlers as callers see them next to the gateway: every
\* handler, on a few URLs and artifact outcomes
ApiUrls == {U_example, U_paypal_tk, U_bracket, U_noscheme}

ApiRequests ==
    \/ \E url \in ApiUrls, outcome \in Outcomes(BatchOutcomes) :
          PostPredict(url, FALSE, outcome)
    \/ \E url \in ApiUrls, outcome \in Outcomes(BatchOutcomes) :
          ScanUrl(url, FALSE, outcome)
    \/ \E urls \in Batches, outcome \in Outcomes(BatchOutcomes) :
          BatchPredict(urls, FALSE, outcome)
    \/ HealthCheck
    \/ HealthCheckDirect
    \/ GetStatsDirect

NextApi ==
    \/ StartupEvent
    \/ started /= "pending" /\ ApiRequests
    \/ SaveModel
    \/ GatewayCalls

SpecApi == Init /\ [][NextApi]_vars

\* ------------------------------------------------------------------------
\* load_model run by several threads at once: one step per statement that
\* reads or writes _model or storage (lines 32, 41, 46, 47, 49)
\* ------------------------------------------------------------------------

Enter(t, model_path) ==
    /\ pc[t] = "idle"
    /\ pc' = [pc EXCEPT ![t] = "L32"]
    /\ frame' = [frame EXCEPT ![t] = [NoFrame EXCEPT !.model_path =
                     IF model_path = "None" THEN DefaultPath ELSE model_path]]
    /\ UNCHANGED <<_model, _instance, storage, loads, started, op, result, branch,
                   log, io>>

\* line 32: if self._model is not None: return self._model
L32(t) ==
    /\ pc[t] = "L32"
    /\ IF _model /= None
       THEN /\ pc' = [pc EXCEPT ![t] = "returned"]
            /\ frame' = [frame EXCEPT ![t].value = _model]
       ELSE /\ pc' = [pc EXCEPT ![t] = "L41"]
            /\ frame' = frame
    /\ UNCHANGED <<_model, _instance, storage, loads, started, op, result, branch,
                   log, io>>

\* line 41: if not os.path.exists(model_path): raise FileNotFoundError
L41(t) ==
    /\ pc[t] = "L41"
    /\ IF storage[frame[t].model_path] = "missing"
       THEN /\ pc' = [pc EXCEPT ![t] = "raised"]
            /\ frame' = [frame EXCEPT ![t].exc = "FileNotFoundError"]
       ELSE /\ pc' = [pc EXCEPT ![t] = "L46"]
            /\ frame' = frame
    /\ UNCHANGED <<_model, _instance, storage, loads, started, op, result, branch,
                   log, io>>

\* lines 46-47, right-hand side: open(model_path) and pickle.load(f)
L46(t) ==
    /\ pc[t] = "L46"
    /\ LET r == pickle_load(storage[frame[t].model_path], loads + 1)
       IN  IF r.exc = "none"
           THEN /\ pc' = [pc EXCEPT ![t] = "L47"]
                /\ frame' = [frame EXCEPT ![t].obj = r.value]
                /\ loads' = loads + 1
           ELSE /\ pc' = [pc EXCEPT ![t] = "raised"]
                /\ frame' = [frame EXCEPT ![t].exc = r.exc]
                /\ loads' = loads
    /\ UNCHANGED <<_model, _instance, storage, started, op, result, branch, log, io>>

\* line 47, the assignment: self._model = <the loaded object>
L47(t) ==
    /\ pc[t] = "L47"
    /\ _model' = frame[t].obj
    /\ pc' = [pc EXCEPT ![t] = "L49"]
    /\ UNCHANGED <<_instance, storage, loads, started, op, result, branch, log, io,
                   frame>>

\* line 49: return self._model
L49(t) ==
    /\ pc[t] = "L49"
    /\ pc' = [pc EXCEPT ![t] = "returned"]
    /\ frame' = [frame EXCEPT ![t].value = _model]
    /\ UNCHANGED <<_model, _instance, storage, loads, started, op, result, branch,
                   log, io>>

ThreadStep ==
    \E t \in Threads :
        \/ \E model_path \in Paths \cup {"None"} : Enter(t, model_path)
        \/ L32(t)
        \/ L41(t)
        \/ L46(t)
        \/ L47(t)
        \/ L49(t)

\* requests served while the loads run
ThreadUrls == {U_example, U_paypal_tk, U_bracket}

NextThreads ==
    \/ ThreadStep
    \/ GetModel
    \/ HealthCheck
    \/ \E url \in ThreadUrls, outcome \in Outcomes(BatchOutcomes) :
          PostPredict(url, FALSE, outcome)

SpecThreads == Init /\ [][NextThreads]_vars

\* ------------------------------------------------------------------------
\* Properties
\* ------------------------------------------------------------------------

FeatureNameSet == {get_feature_names[i] : i \in 1..Len(get_feature_names)}

HeuristicPaths == {"not_loaded", "fallback", "six_rule"}

\* the messages a decision computed from the artifact's output can carry, on
\* either inference surface
ModelMessages ==
    {model_decision(U_example, <<>>, o).message :
        o \in {x \in ModelOutcomes : artifact_exc(x) = "none"}}
    \cup {scan_payload(U_example, l, 0).message : l \in {"Phishing", "Benign"}}

\* C1: on POST /predict and GET /api/v1/scan-url, when the held artifact's
\* predict or predict_proba raises, the request is answered with a decision
\* of the heuristic policy and never with an HTTP error.
C1_ArtifactErrorFallsBack ==
    (op.name \in {"predict_url", "scan_url_direct"} /\ branch.artifact \in ArtifactErrors)
        => (result.exc = "none" /\ branch.path \in HeuristicPaths)

\* C2: for every input string extract_features returns normally, and the
\* result has exactly the 30 keys of get_feature_names.
C2_ExtractNeverRaises ==
    op.name = "extract_features"
        => (result.exc = "none" /\ DOMAIN result.value = FeatureNameSet)

\* C3: POST /predict enters its not-loaded branch (the 'Model not loaded'
\* log line, the demo message) only when get_model signalled that no
\* artifact is held, never for an exception of a held artifact.
C3_NotLoadedOnlyWhenAbsent ==
    (/\ op.name = "predict_url"
     /\ result.exc = "none"
     /\ result.value.message = MsgDemo)
        => (/\ get_model(_model).exc = "RuntimeError"
            /\ branch.artifact = "not_called")

\* C4: GET /api/v1/scan-url on a URL that passes the scheme check, with no
\* artifact held, labels the URL by the six-rule policy, with confidence
\* 0.85 for Phishing and 0.92 for Benign.
C4_ScanUsesSixRules ==
    (/\ op.name = "scan_url_direct"
     /\ validate_url(op.arg)
     /\ _model = None
     /\ "prediction" \in DOMAIN result.value)
        => (/\ result.value.prediction =
                  (IF six_rule_is_phishing(op.arg) THEN "Phishing" ELSE "Benign")
            /\ result.value.confidence =
                  (IF six_rule_is_phishing(op.arg) THEN 8500 ELSE 9200))

\* C5: the message of every decision tells which mode produced it: a
\* decision of a heuristic or fallback policy never carries a message that
\* a model-produced decision can carry.
C5_MessageTellsMode ==
    (/\ op.name \in {"predict_url", "scan_url_direct"}
     /\ result.exc = "none"
     /\ branch.path \in HeuristicPaths)
        => result.value.message \notin ModelMessages

\* C6: after a failed startup load (artifact missing or corrupt) the gateway
\* stays absent whatever requests follow: get_model raises not-loaded and
\* every POST /predict is answered by the heuristic path.
C6_AbsentForTheProcess ==
    started \in {"not_found", "error"}
        => (/\ get_model(_model).exc = "RuntimeError"
            /\ op.name = "predict_url"
                  => (result.exc = "none" /\ branch.path = "not_loaded"))

\* The part of C6 that concerns the gateway alone: no request handler loads.
GatewayStaysAbsent ==
    started \in {"not_found", "error"} => (_model = None /\ loads = 0)

\* C7: under every interleaving of load_model calls the artifact is read
\* from storage (deserialized) at most once per process.
C7_LoadedAtMostOnce == loads <= 1

\* C8: load_model called while an artifact is held does nothing: no storage
\* call (neither the existence check nor the read), and it returns the held
\* artifact, whatever path is passed.
C8_CachedLoadIsNoOp ==
    [][(op'.name = "load_model" /\ _model /= None)
          => (/\ io' = <<>>
              /\ result'.exc = "none"
              /\ result'.value = _model
              /\ _model' = _model
              /\ loads' = loads)]_vars

C8_Witness ==
    /\ op.name = "load_model"
    /\ op.arg = "other.pkl"
    /\ storage["other.pkl"] = "missing"
    /\ _model /= None
    /\ result.exc = "none"
    /\ result.value = _model
    /\ io = <<>>

\* C9: once a load has succeeded the held artifact never changes and never
\* becomes absent, whatever calls follow, and get_model returns it.
C9_HeldArtifactIsStable ==
    [][_model /= None
          => (/\ _model' = _model
              /\ op'.name = "get_model"
                    => (result'.exc = "none" /\ result'.value = _model))]_vars

C9_Witness ==
    /\ op.name = "get_model"
    /\ result.exc = "none"
    /\ result.value = 1
    /\ loads = 1
    /\ storage["other.pkl"] = "valid"

\* C10: load_model with no artifact held raises FileNotFoundError when the
\* path holds nothing and another error when what it holds cannot be
\* deserialized; the gateway holds no artifact after either; startup_event
\* takes its not-found branch exactly for the first.
C10_LoadFailuresAreDistinct ==
    [][/\ (op'.name = "load_model" /\ _model = None)
            => LET path == IF op'.arg = "None" THEN DefaultPath ELSE op'.arg
               IN  /\ storage[path] = "missing"
                         => (result'.exc = "FileNotFoundError" /\ _model' = None)
                   /\ storage[path] = "corrupt"
                         => (/\ result'.exc \notin {"none", "FileNotFoundError"}
                             /\ _model' = None)
       /\ (op'.name = "startup_event" /\ _model = None)
            => /\ storage[DefaultPath] = "missing"
                     => (started' = "not_found" /\ _model' = None)
               /\ storage[DefaultPath] = "corrupt"
                     => (started' = "error" /\ _model' = None)
               /\ started' = "not_found" => storage[DefaultPath] = "missing"]_vars

C10_Witness ==
    /\ started = "not_found"
    /\ op.name = "load_model"
    /\ op.arg = "other.pkl"
    /\ result.exc = "UnpicklingError"
    /\ _model = None

\* the keys of a PredictionResponse and of an inline batch error
DecisionKeys == {"url", "prediction", "confidence", "risk_score", "features", "message"}

ErrorKeys == {"url", "error"}

HasScheme(url) ==
    \/ Len(url) >= 7 /\ SubSeq(url, 1, 7) = <<"h", "t", "t", "p", ":", "/", "/">>
    \/ Len(url) >= 8 /\ SubSeq(url, 1, 8) = <<"h", "t", "t", "p", "s", ":", "/", "/">>

\* C11: batch_predict on n URLs answers exactly min(n, 100) results, in
\* input order, with total equal to that count; an item that fails is an
\* inline {url, error} entry at its position, and the items after it are
\* still answered.
C11_BatchBoundedInOrder ==
    op.name = "batch_predict"
        => LET n == Len(op.arg)
               results == result.value.results
           IN  /\ result.exc = "none"
               /\ Len(results) = (IF n < 100 THEN n ELSE 100)
               /\ result.value.total = Len(results)
               /\ \A i \in 1..Len(results) :
                     /\ results[i].url = op.arg[i]
                     /\ DOMAIN results[i] \in {DecisionKeys, ErrorKeys}
                     /\ ~HasScheme(op.arg[i]) => DOMAIN results[i] = ErrorKeys
                     /\ (HasScheme(op.arg[i]) /\ _model = None /\ op.arg[i] /= U_bracket)
                           => DOMAIN results[i] = DecisionKeys

C11_Witness ==
    /\ op.name = "batch_predict"
    /\ Len(op.arg) = 101
    /\ result.value.total = 100
    /\ DOMAIN result.value.results[2] = ErrorKeys
    /\ DOMAIN result.value.results[3] = ErrorKeys
    /\ DOMAIN result.value.results[4] = DecisionKeys
    /\ result.value.results[100].url = op.arg[100]

\* C12: a URL that begins with neither 'http://' nor 'https://' is rejected
\* on POST /predict, POST /batch-predict and GET /api/v1/scan-url before
\* extract_features is called, and no label is returned for it.
C12_NoSchemeIsRejected ==
    /\ (op.name \in {"URLRequest", "predict_url", "scan_url_direct"} /\ ~HasScheme(op.arg))
          => (/\ op.name /= "predict_url"
              /\ branch.path = "rejected"
              /\ "prediction" \notin DOMAIN result.value)
    /\ op.name = "batch_predict"
          => \A i \in 1..Len(result.value.results) :
                ~HasScheme(op.arg[i]) => "prediction" \notin DOMAIN result.value.results[i]

C12_Witness ==
    /\ op.name = "scan_url_direct"
    /\ op.arg = U_noscheme
    /\ branch.path = "rejected"
    /\ "error" \in DOMAIN result.value

\* the six signals of the demo heuristic that hold for a feature mapping
SignalsOf(f) ==
    {s \in {"has_at_symbol", "is_ip_address", "has_suspicious_tld", "has_phishing_keyword"} :
        f[s] = 1}
    \cup (IF f["url_length"] > 75 THEN {"url_length > 75"} ELSE {})
    \cup (IF f["num_dots"] > 4 THEN {"num_dots > 4"} ELSE {})

C14_MessageFollowsReturnedScore ==
    (op.name = "predict_url" /\ result.exc = "none" /\ branch.path = "model")
        => LET d == result.value
           IN  d.message =
                  (IF d.prediction = "Benign"
                   THEN "This URL appears to be legitimate."
                   ELSE IF d.risk_score[1] >= 90 * d.risk_score[2]
                   THEN "HIGH RISK: This URL is highly likely to be a phishing attempt. Do not proceed."
                   ELSE IF d.risk_score[1] >= 70 * d.risk_score[2]
                   THEN "MEDIUM RISK: This URL shows signs of phishing. Proceed with caution."
                   ELSE "LOW RISK: This URL may be suspicious. Verify before proceeding.")

\* x units is the nearest multiple of unit to y
Nearest(x, y, unit) == 2 * (x * unit - y) <= unit /\ 2 * (y - x * unit) <= unit

\* the entry of a probability vector taken as the phishing probability
PhishingEntry(p) == p[IF Len(p) > 1 THEN 2 ELSE 1]

\* C15 as stated: on the model path the label is Phishing exactly when the
\* predicted class is 1, confidence is the maximum entry of the probability
\* vector and risk_score is 100 times its second (or only) entry.
C15_ExactConfidenceAndScore ==
    (op.name = "predict_url" /\ result.exc = "none" /\ branch.path = "model")
        => /\ result.value.prediction = "Phishing" <=> branch.prediction = 1
           /\ \E i \in DOMAIN branch.probabilities :
                 /\ \A j \in DOMAIN branch.probabilities :
                       branch.probabilities[j] <= branch.probabilities[i]
                 /\ result.value.confidence * 100 = branch.probabilities[i]
           /\ result.value.risk_score[1] * 10000
                 = PhishingEntry(branch.probabilities) * result.value.risk_score[2]

\* C15 amended: the same with confidence rounded to 4 decimal places and
\* risk_score rounded to 2; a model returning [0.1, 0.9] with class 1 gives
\* Phishing, confidence 0.9, risk_score 90.0 and the high-risk message.
C15_RoundedConfidenceAndScore ==
    (op.name = "predict_url" /\ result.exc = "none" /\ branch.path = "model")
        => /\ result.value.prediction \in {"Phishing", "Benign"}
           /\ result.value.prediction = "Phishing" <=> branch.prediction = 1
           /\ \E i \in DOMAIN branch.probabilities :
                 /\ \A j \in DOMAIN branch.probabilities :
                       branch.probabilities[j] <= branch.probabilities[i]
                 /\ Nearest(result.value.confidence, branch.probabilities[i], 100)
           /\ result.value.risk_score[2] = 100
           /\ Nearest(result.value.risk_score[1], PhishingEntry(branch.probabilities), 100)
           /\ (branch.probabilities = <<100000, 900000>> /\ branch.prediction = 1)
                 => /\ result.value.prediction = "Phishing"
                    /\ result.value.confidence = 9000
                    /\ result.value.risk_score = <<9000, 100>>
                    /\ result.value.message = MsgHigh

C15_Witness ==
    /\ op.name = "predict_url"
    /\ branch.path = "model"
    /\ branch.prediction = 1
    /\ branch.probabilities = <<100004, 899996>>
    /\ result.value.confidence = 9000
    /\ result.value.risk_score = <<9000, 100>>

\* C16: a request handled while the load has not completed observes the
\* not-loaded condition and is answered by the heuristic without waiting;
\* under every interleaving get_model yields not-loaded or a completely
\* loaded artifact.
C16_RequestDuringLoad ==
    /\ op.name = "get_model"
          => \/ result.exc = "RuntimeError"
             \/ result.exc = "none" /\ result.value \in 1..loads
    /\ (op.name = "predict_url" /\ _model = None /\ \E t \in Threads : pc[t] /= "idle")
          => (result.exc = "none" /\ branch.path = "not_loaded")

\* The part of C16 that concerns the gateway alone: what get_model returns
\* is an artifact a deserialization has finished, and a thread between its
\* read and its assignment (line 47) keeps the object to itself.
GetModelNeverPartial ==
    /\ _model \in 0..loads
    /\ op.name = "get_model"
          => \/ result.exc = "RuntimeError"
             \/ result.exc = "none" /\ result.value \in 1..loads
    /\ (op.name = "predict_url" /\ _model = None /\ op.arg /= U_bracket)
          => (result.exc = "none" /\ branch.path = "not_loaded")

\* C17: POST /predict labels 'http://paypal-secure-login.tk' Phishing and
\* 'https://github.com' Benign, also when no model is loaded and the
\* heuristic policy decides (stated here for that case, the one the code
\* alone determines).
C17_SuiteLabelsWithoutModel ==
    (/\ op.name = "predict_url"
     /\ _model = None
     /\ branch.tldextract = "returns"
     /\ result.exc = "none")
        => /\ op.arg = U_paypal_tk => result.value.prediction = "Phishing"
           /\ op.arg = U_github => result.value.prediction = "Benign"

\* C18: the ordered name list a training row is built from is the list the
\* inference rows of POST /predict and GET /api/v1/scan-url are built from,
\* and every name of it is a key of every extract_features result, so a row
\* is built without a missing key.
C18_OneSchemaEverywhere ==
    /\ train_feature_names = predict_feature_names
    /\ predict_feature_names = scan_feature_names
    /\ Len(predict_feature_names) = 30
    /\ (op.name = "extract_features" /\ result.exc = "none")
          => /\ \A i \in 1..Len(predict_feature_names) :
                   predict_feature_names[i] \in DOMAIN result.value
             /\ feature_vector(result.value, predict_feature_names).exc = "none"
             /\ feature_vector(result.value, scan_feature_names).exc = "none"
    /\ op.name = "extract_features_from_dataset"
          => /\ result.value.skipped
                   <=> Features[op.arg, branch.tldextract = "raises"].exc /= "none"
             /\ ~result.value.skipped
                   => result.value.row
                         = [i \in 1..30 |->
                               Features[op.arg, branch.tldextract = "raises"]
                                   .features[predict_feature_names[i]]]

C18_Witness ==
    /\ op.name = "extract_features_from_dataset"
    /\ op.arg = U_paypal_tk
    /\ ~result.value.skipped
    /\ Len(result.value.row) = 30
    /\ result.value.row[1] = 29
    /\ result.value.row[28] = 1

\* C19: every successful GET /api/v1/scan-url response carries the full
\* decision payload (url, label, confidence, risk score, feature snapshot,
\* message) and also a response-latency field and a request identifier.
C19_ScanCarriesFullPayload ==
    (/\ op.name = "scan_url_direct"
     /\ result.exc = "none"
     /\ "prediction" \in DOMAIN result.value)
        => /\ DecisionKeys \subseteq DOMAIN result.value
           /\ {"responseTimeMs", "requestId"} \subseteq DOMAIN result.value

\* What a successful scan response does carry.
ScanPayloadKeys ==
    (/\ op.name = "scan_url_direct"
     /\ result.exc = "none"
     /\ "prediction" \in DOMAIN result.value)
        => DOMAIN result.value
              = {"url", "prediction", "confidence", "message", "responseTimeMs",
                 "fromCache", "timestamp", "requestId"}

StructuralFeatures ==
    {"subdomain_length", "has_subdomain", "num_subdomains", "path_length",
     "num_path_tokens", "has_query_params", "num_query_params", "is_ip_address",
     "has_port", "tld_length", "has_suspicious_tld"}

\* f holds, for the raw-string features, what the literal string url gives
RawFromLiteral(f, url) ==
    /\ f["url_length"] = Len(url)
    /\ f["num_dots"] = Cardinality({i \in 1..Len(url) : url[i] = "."})
    /\ f["num_hyphens"] = Cardinality({i \in 1..Len(url) : url[i] = "-"})
    /\ f["num_slashes"] = Cardinality({i \in 1..Len(url) : url[i] = "/"})
    /\ f["num_digits"] = Cardinality({i \in 1..Len(url) : url[i] \in Digits})
    /\ f["has_at_symbol"] = (IF \E i \in 1..Len(url) : url[i] = "@" THEN 1 ELSE 0)
    /\ f["has_phishing_keyword"]
          = (IF \E k \in phishing_keywords : contains(lower(url), k) THEN 1 ELSE 0)
    /\ f["url_entropy"] = calculate_entropy(url)

\* C20: when structural decomposition fails anywhere inside extract_features
\* (urlparse or the suffix lookup raises), the result has every structural
\* feature 0 and the raw-string features as computed from the literal string.
C20_DefaultsOnDecompositionFailure ==
    (op.name = "extract_features"
     /\ (urlparse(op.arg).raises \/ branch.tldextract = "raises"))
        => /\ result.exc = "none"
           /\ \A s \in StructuralFeatures : result.value[s] = 0
           /\ RawFromLiteral(result.value, op.arg)

\* The part of C20 the except block of lines 86-98 does deliver: a failure
\* inside the try block.
DefaultsOnLookupFailure ==
    (/\ op.name = "extract_features"
     /\ ~urlparse(op.arg).raises
     /\ branch.tldextract = "raises")
        => /\ result.exc = "none"
           /\ \A s \in StructuralFeatures : result.value[s] = 0
           /\ RawFromLiteral(result.value, op.arg)

\* the authority of url has a colon in it
ColonInAuthority(url) ==
    \E i \in 1..Len(urlparse(url).netloc) : urlparse(url).netloc[i] = ":"

\* C21 as stated: in every extract_features result has_port is 0 whenever
\* is_ip_address is 1, and has_port is 1 exactly when the authority contains
\* ':' and is_ip_address is 0.
C21_HasPortInEveryResult ==
    (op.name = "extract_features" /\ result.exc = "none")
        => /\ result.value.is_ip_address = 1 => result.value.has_port = 0
           /\ result.value.has_port = 1
                 <=> (ColonInAuthority(op.arg) /\ result.value.is_ip_address = 0)

\* C21 amended: in every result has_port is 0 whenever is_ip_address is 1;
\* when the decomposition succeeded has_port is 1 exactly when the authority
\* contains ':' and is_ip_address is 0; when it failed both are 0.
C21_HasPortWhenDecomposed ==
    (op.name = "extract_features" /\ result.exc = "none")
        => /\ result.value.has_port \in {0, 1}
           /\ result.value.is_ip_address = 1 => result.value.has_port = 0
           /\ branch.tldextract = "returns"
                 => (result.value.has_port = 1
                        <=> (ColonInAuthority(op.arg) /\ result.value.is_ip_address = 0))
           /\ branch.tldextract = "raises"
                 => (result.value.has_port = 0 /\ result.value.is_ip_address = 0)

C21_Witness ==
    /\ op.name = "extract_features"
    /\ op.arg = U_ip_port
    /\ branch.tldextract = "returns"
    /\ ColonInAuthority(op.arg)
    /\ result.value.is_ip_address = 1
    /\ result.value.has_port = 0

\* the host of a URL: its authority without the user information and
\* without the port
HostOf(url) == before(afterLast(urlparse(url).netloc, <<"@">>), <<":">>)

\* four dot-separated groups of one to three decimal digits
FourGroups(host) ==
    /\ Cardinality({i \in 1..Len(host) : host[i] = "."}) = 3
    /\ \A i \in 1..Len(host) : host[i] \in Digits \cup {"."}
    /\ \A g \in {split(host, <<".">>)[k] : k \in 1..Len(split(host, <<".">>))} :
          Len(g) \in 1..3

\* C22: is_ip_address is 1 exactly when the host of the URL is four
\* dot-separated groups of one to three decimal digits, with no range check:
\* 192.168.1.1 and 999.999.999.999 give 1, example.com gives 0, and an
\* authority whose host is not of that form never gives 1.
C22_IpLiteralIffHostMatches ==
    (op.name = "extract_features" /\ result.exc = "none" /\ branch.tldextract = "returns")
        => (result.value.is_ip_address = 1 <=> FourGroups(HostOf(op.arg)))

\* What line 76 does compute: the pattern on the authority up to its first
\* colon, user information included.
IpLiteralFollowsFirstPiece ==
    (op.name = "extract_features" /\ result.exc = "none" /\ branch.tldextract = "returns")
        => /\ result.value.is_ip_address = 1
                 <=> FourGroups(before(urlparse(op.arg).netloc, <<":">>))
           /\ op.arg \in {U_ip_tk, U_ip_port} => result.value.is_ip_address = 1
           /\ op.arg = U_example => result.value.is_ip_address = 0

\* the whole string ends with one of the seven suspicious suffixes
EndsSuspicious(url) ==
    \E tld \in {<<".", "t", "k">>, <<".", "m", "l">>, <<".", "g", "a">>, <<".", "c", "f">>, <<".", "g", "q">>, <<".", "x", "y", "z">>, <<".", "t", "o", "p">>} :
        /\ Len(url) >= Len(tld)
        /\ SubSeq(url, Len(url) - Len(tld) + 1, Len(url)) = tld

\* C23 as stated: for every input has_suspicious_tld is 1 exactly when the
\* whole URL string ends with '.tk', '.ml', '.ga', '.cf', '.gq', '.xyz' or
\* '.top', and 0 otherwise.
C23_SuspiciousSuffixForEveryInput ==
    (op.name = "extract_features" /\ result.exc = "none")
        => (result.value.has_suspicious_tld = 1 <=> EndsSuspicious(op.arg))

\* C23 amended: in every result has_suspicious_tld is 0 or 1; when the
\* decomposition succeeded it is 1 exactly when the whole URL string ends
\* with one of the seven suffixes (a path ending in them counts, a URL
\* ending in '.com' gives 0); when it failed the value is 0.
C23_SuspiciousSuffixWhenDecomposed ==
    (op.name = "extract_features" /\ result.exc = "none")
        => /\ result.value.has_suspicious_tld \in {0, 1}
           /\ branch.tldextract = "returns"
                 => (result.value.has_suspicious_tld = 1 <=> EndsSuspicious(op.arg))
           /\ branch.tldextract = "raises" => result.value.has_suspicious_tld = 0
           /\ (op.arg = U_example /\ branch.tldextract = "returns")
                 => result.value.has_suspicious_tld = 0

C23_Witness ==
    /\ op.name = "extract_features"
    /\ op.arg = U_at_xyz
    /\ branch.tldextract = "returns"
    /\ result.exc = "none"
    /\ result.value.tld_length = 3
    /\ result.value.has_suspicious_tld = 1

\* C24: the status surfaces report the gateway's actual state: GET /health
\* model_loaded and GET /api/v1/health ml_model.loaded are true exactly
\* when an artifact is held, and GET /api/v1/stats reports model 'loaded'
\* when one is held and 'demo_mode' when none is.
C24_StatusSurfacesReportGateway ==
    /\ op.name = "health_check" => (result.value.model_loaded <=> _model /= None)
    /\ op.name = "health_check_direct"
          => (result.value.ml_model.loaded <=> _model /= None)
    /\ op.name = "get_stats_direct"
          => result.value.model = (IF _model /= None THEN "loaded" ELSE "demo_mode")

\* What the three surfaces do report, through the one ModelLoader instance.
StatusSurfacesAsCoded ==
    /\ _instance = 1
    /\ op.name = "health_check" => (result.value.model_loaded <=> _model /= None)
    /\ op.name = "health_check_direct"
          => (result.value.ml_model.loaded <=> _model /= None)
    /\ op.name = "get_stats_direct"
          => result.value.model = (IF _model /= None THEN "loaded" ELSE "error")

====
